---- MODULE Spec2Model ----
(***************************************************************************)
(* Test-case synthesis workflow of the healthcare test-case generator:     *)
(* the request handlers of api/main.py (upload, Jira, answer submission,   *)
(* login, admin settings, logs), the orchestration of                      *)
(* api/services/llm_service.py and its response parser _safe_parse_json.   *)
(*                                                                         *)
(* Texts are sequences of lexical tokens.  A model response is such a      *)
(* sequence; json.loads is a recursive-descent parser over it.             *)
(***************************************************************************)
EXTENDS Integers, Sequences, FiniteSets, TLC

(***************************************************************************)
(* Bounds of the model.                                                    *)
(***************************************************************************)
MaxLen == 4
MaxProse == 1
MaxCases == 4
MaxUuid == 2

(***************************************************************************)
(* Lexical tokens of a response text.  A key token stands for a string     *)
(* literal followed by ':' ("testCases": and so on); ONE is a truthy       *)
(* scalar (the number 1), NULLTOK the literal null, WORD a word of prose   *)
(* that is no JSON token.                                                  *)
(***************************************************************************)
LBRACE == "{"
RBRACE == "}"
LBRACK == "["
RBRACK == "]"
COMMA == ","
KEY_TC == "testCases:"
KEY_FQ == "followUpQuestions:"
KEY_OTHER == "other:"
ONE == "1"
NULLTOK == "null"
WORD == "x"

KeyTokens == {KEY_TC, KEY_FQ, KEY_OTHER}
Tokens == {LBRACE, RBRACE, LBRACK, RBRACK, COMMA, ONE, NULLTOK, WORD} \cup KeyTokens

KeyName(tok) ==
    CASE tok = KEY_TC -> "testCases"
      [] tok = KEY_FQ -> "followUpQuestions"
      [] OTHER -> "other"

(***************************************************************************)
(* Python values.  Every value is a pair <<tag, payload>>:                 *)
(*   <<"none", <<>>>>           None                                       *)
(*   <<"num", <<"1">>>>         the number 1                               *)
(*   <<"str", <<s>>>>           a string                                   *)
(*   <<"list", <<v1, ...>>>>    a list                                     *)
(*   <<"dict", <<<<k1, v1>>, ...>>>>  a dict, in insertion order           *)
(***************************************************************************)
None == <<"none", <<>>>>
Num(n) == <<"num", <<n>>>>
Str(s) == <<"str", <<s>>>>
List(items) == <<"list", items>>
Dict(pairs) == <<"dict", pairs>>

Tag(v) == v[1]
Payload(v) == v[2]
IsDict(v) == Tag(v) = "dict"
IsList(v) == Tag(v) = "list"

\* Python truthiness: None, empty list, empty dict and the empty string are falsy.
Truthy(v) ==
    CASE Tag(v) = "none" -> FALSE
      [] Tag(v) = "list" -> Payload(v) # <<>>
      [] Tag(v) = "dict" -> Payload(v) # <<>>
      [] Tag(v) = "str" -> Payload(v) # <<"">>
      [] OTHER -> TRUE

HasKey(d, k) == \E i \in 1..Len(Payload(d)) : Payload(d)[i][1] = k

\* d[k] of a dict that has k
DictItem(d, k) ==
    LET i == CHOOSE j \in 1..Len(Payload(d)) : Payload(d)[j][1] = k
    IN Payload(d)[i][2]

\* d.get(k, default)
DictGet(d, k, default) == IF HasKey(d, k) THEN DictItem(d, k) ELSE default

\* d[k] = v on the pair list: a repeated key keeps its place and takes the last value
DictSet(pairs, k, v) ==
    IF \E i \in 1..Len(pairs) : pairs[i][1] = k
    THEN [i \in 1..Len(pairs) |-> IF pairs[i][1] = k THEN <<k, v>> ELSE pairs[i]]
    ELSE Append(pairs, <<k, v>>)

\* len(v): defined on lists, dicts and strings (a TypeError elsewhere)
HasLen(v) == Tag(v) \in {"list", "dict"}
PyLen(v) == Len(Payload(v))

(***************************************************************************)
(* json.loads: a recursive-descent parser.  Each Parse* operator returns   *)
(* [ok, val, rest]: whether a value was read, the value, the tokens left.  *)
(***************************************************************************)
Fail == [ok |-> FALSE, val |-> None, rest |-> <<>>]
Ok(v, r) == [ok |-> TRUE, val |-> v, rest |-> r]

RECURSIVE ParseValue(_), ParseElems(_, _), ParseMembers(_, _)

ParseValue(s) ==
    IF s = <<>> THEN Fail
    ELSE CASE Head(s) = ONE -> Ok(Num("1"), Tail(s))
           [] Head(s) = NULLTOK -> Ok(None, Tail(s))
           [] Head(s) = LBRACK ->
                IF Tail(s) # <<>> /\ Head(Tail(s)) = RBRACK
                THEN Ok(List(<<>>), Tail(Tail(s)))
                ELSE ParseElems(Tail(s), <<>>)
           [] Head(s) = LBRACE ->
                IF Tail(s) # <<>> /\ Head(Tail(s)) = RBRACE
                THEN Ok(Dict(<<>>), Tail(Tail(s)))
                ELSE ParseMembers(Tail(s), <<>>)
           [] OTHER -> Fail

ParseElems(s, acc) ==
    LET r == ParseValue(s) IN
    IF ~r.ok \/ r.rest = <<>> THEN Fail
    ELSE CASE Head(r.rest) = COMMA -> ParseElems(Tail(r.rest), Append(acc, r.val))
           [] Head(r.rest) = RBRACK -> Ok(List(Append(acc, r.val)), Tail(r.rest))
           [] OTHER -> Fail

ParseMembers(s, acc) ==
    IF s = <<>> \/ Head(s) \notin KeyTokens THEN Fail
    ELSE LET r == ParseValue(Tail(s)) IN
         IF ~r.ok \/ r.rest = <<>> THEN Fail
         ELSE CASE Head(r.rest) = COMMA ->
                     ParseMembers(Tail(r.rest), DictSet(acc, KeyName(Head(s)), r.val))
                [] Head(r.rest) = RBRACE ->
                     Ok(Dict(DictSet(acc, KeyName(Head(s)), r.val)), Tail(r.rest))
                [] OTHER -> Fail

\* json.loads(text): [raised, val]; raises when the text is not one JSON value
json_loads(text) ==
    LET r == ParseValue(text) IN
    IF r.ok /\ r.rest = <<>>
    THEN [raised |-> FALSE, val |-> r.val]
    ELSE [raised |-> TRUE, val |-> None]

\* text.find(c): index of the first c (from 1), 0 when absent (Python's -1)
Find(text, c) ==
    IF \E i \in 1..Len(text) : text[i] = c
    THEN CHOOSE i \in 1..Len(text) : text[i] = c /\ \A j \in 1..(i - 1) : text[j] # c
    ELSE 0

\* text.rfind(c): index of the last c (from 1), 0 when absent
RFind(text, c) ==
    IF \E i \in 1..Len(text) : text[i] = c
    THEN CHOOSE i \in 1..Len(text) : text[i] = c /\ \A j \in (i + 1)..Len(text) : text[j] # c
    ELSE 0

\* _safe_parse_json with the inner try block left out: a snippet that does not
\* parse raises
safe_parse_json_inner_raises(text) ==
    LET whole == json_loads(text) IN
    IF ~whole.raised THEN [raised |-> FALSE, val |-> whole.val]
    ELSE LET start == Find(text, LBRACE)
             end == RFind(text, RBRACE)
         IN IF start # 0 /\ end # 0 /\ end > start
            THEN json_loads(SubSeq(text, start, end))
            ELSE [raised |-> FALSE, val |-> None]

\* _safe_parse_json with the snippet cut as text[start:end], the last '}' lost
safe_parse_json_short_snippet(text) ==
    LET whole == json_loads(text) IN
    IF ~whole.raised THEN [raised |-> FALSE, val |-> whole.val]
    ELSE LET start == Find(text, LBRACE)
             end == RFind(text, RBRACE)
         IN IF start # 0 /\ end # 0 /\ end > start
            THEN LET part == json_loads(SubSeq(text, start, end - 1))
                 IN [raised |-> FALSE, val |-> IF part.raised THEN None ELSE part.val]
            ELSE [raised |-> FALSE, val |-> None]

\* LLMService._safe_parse_json: [raised, val]
safe_parse_json(text) ==
    LET whole == json_loads(text) IN
    IF ~whole.raised THEN [raised |-> FALSE, val |-> whole.val]
    ELSE LET start == Find(text, LBRACE)
             end == RFind(text, RBRACE)
         IN IF start # 0 /\ end # 0 /\ end > start
            THEN LET snippet == SubSeq(text, start, end)
                     part == json_loads(snippet)
                 IN IF ~part.raised
                    THEN [raised |-> FALSE, val |-> part.val]
                    ELSE [raised |-> FALSE, val |-> None]
            ELSE [raised |-> FALSE, val |-> None]

(***************************************************************************)
(* LLMService                                                              *)
(***************************************************************************)
MinTestCases == 3

Raise == [raised |-> TRUE, val |-> None]
Return(v) == [raised |-> FALSE, val |-> v]

\* _propose_followups with a question made from the source text
propose_followups_from_source(source_text) ==
    List(<<Str(source_text), Str("q_integrations"), Str("q_regulatory")>>)

\* LLMService._propose_followups: the same three questions for every source text
propose_followups(source_text) ==
    List(<<Str("q_roles"), Str("q_integrations"), Str("q_regulatory")>>)

EmptyResult == Dict(<<<<"testCases", List(<<>>)>>>>)

\* LLMService._build_generation_prompt; source texts are opaque, so the cut at
\* 12000 characters leaves them as they are
build_generation_prompt(source_text, max_cases) ==
    [kind |-> "generation", context |-> source_text, qa_block |-> <<>>,
     max_cases |-> max_cases]

\* LLMService._build_refinement_prompt
build_refinement_prompt(source_text, qa_block, max_cases) ==
    [kind |-> "refinement", context |-> source_text, qa_block |-> qa_block,
     max_cases |-> max_cases]

\* generate_test_cases with the threshold test written <= 3
generate_test_cases_off_by_one(content, source_text, max_cases, enable_followups) ==
    LET p == safe_parse_json(content).val
        parsed == IF ~Truthy(p) THEN EmptyResult ELSE p
        followups == Dict(<<<<"followUpQuestions", propose_followups(source_text)>>>>)
    IN IF ~enable_followups THEN Return(parsed)
       ELSE IF ~IsDict(parsed) THEN Raise
       ELSE IF ~Truthy(DictGet(parsed, "testCases", None)) THEN Return(followups)
       ELSE LET cases == DictGet(parsed, "testCases", List(<<>>)) IN
            IF ~HasLen(cases) THEN Raise
            ELSE IF PyLen(cases) <= MinTestCases THEN Return(followups)
            ELSE Return(parsed)

\* LLMService.generate_test_cases from the model's reply on (lines 19-28):
\* [raised, val].  parsed.get raises on a value that is no dict, len raises on
\* a value that has no length.
generate_test_cases(content, source_text, max_cases, enable_followups) ==
    LET p == safe_parse_json(content).val
        parsed == IF ~Truthy(p) THEN EmptyResult ELSE p
        followups == Dict(<<<<"followUpQuestions", propose_followups(source_text)>>>>)
    IN IF ~enable_followups THEN Return(parsed)
       ELSE IF ~IsDict(parsed) THEN Raise
       ELSE IF ~Truthy(DictGet(parsed, "testCases", None)) THEN Return(followups)
       ELSE LET cases == DictGet(parsed, "testCases", List(<<>>)) IN
            IF ~HasLen(cases) THEN Raise
            ELSE IF PyLen(cases) < MinTestCases THEN Return(followups)
            ELSE Return(parsed)

\* The answers of a FollowUpAnswers request: a function from some index
\* strings to answer texts (Dict[str, str], so no integer keys).
IndexStr(i) == ToString(i)

\* answers_map.get(str(idx), '') or answers_map.get(idx) or ''
AnswerFor(answers_map, idx) ==
    IF IndexStr(idx) \in DOMAIN answers_map /\ answers_map[IndexStr(idx)] # ""
    THEN answers_map[IndexStr(idx)]
    ELSE ""

\* for idx, q in enumerate(questions): the items of a list, the keys of a dict
Iterable(questions) == Tag(questions) \in {"list", "dict"}
Items(questions) ==
    IF IsDict(questions)
    THEN [i \in 1..Len(Payload(questions)) |-> Str(Payload(questions)[i][1])]
    ELSE Payload(questions)

\* the Q/A block with the questions that have no answer left out
qa_block_answered_only(questions, answers_map) ==
    LET all == [i \in 1..Len(Items(questions)) |->
                   [q |-> Items(questions)[i], a |-> AnswerFor(answers_map, i - 1)]]
    IN SelectSeq(all, LAMBDA line : line.a # "")

\* the Q/A block (lines 37-41): one line 'Q: <q> A: <a>' per question; the
\* block is the sequence of its lines
qa_block_of(questions, answers_map) ==
    [i \in 1..Len(Items(questions)) |->
        [q |-> Items(questions)[i], a |-> AnswerFor(answers_map, i - 1)]]

\* generate_refined_test_cases without the default for a reply that did not parse
generate_refined_no_default(content) == Return(safe_parse_json(content).val)

\* LLMService.generate_refined_test_cases from the model's reply on (lines 46-52)
generate_refined_test_cases(content) ==
    LET p == safe_parse_json(content).val
    IN Return(IF ~Truthy(p) THEN EmptyResult ELSE p)

(***************************************************************************)
(* Inputs of the service: users, source documents, file names, replies of  *)
(* the model, answer sets and admin settings.                              *)
(***************************************************************************)
Users == {"alice", "bob"}
PdfTexts == {"docA"}
StoryTexts == {"docB"}
FileNames == {<<"story", ".pdf">>, <<"story", ".txt">>}

\* n scalars separated by commas
RECURSIVE Ones(_)
Ones(n) == IF n = 0 THEN <<>> ELSE IF n = 1 THEN <<ONE>> ELSE <<ONE, COMMA>> \o Ones(n - 1)

\* {"testCases": [1, ..., 1]} with n test cases
CasesText(n) == <<LBRACE, KEY_TC, LBRACK>> \o Ones(n) \o <<RBRACK, RBRACE>>

\* {"testCases": [1, ..., 1], "followUpQuestions": [1]}
CasesAndQuestionsText(n) ==
    <<LBRACE, KEY_TC, LBRACK>> \o Ones(n)
        \o <<RBRACK, COMMA, KEY_FQ, LBRACK, ONE, RBRACK, RBRACE>>

\* What the model may reply: test-case objects bare and wrapped in prose, an
\* object that also carries a followUpQuestions key, an object without
\* testCases, JSON that is no object, text that is no JSON.
ModelTexts ==
    {CasesText(n) : n \in 0..MaxCases}
    \cup {<<WORD>> \o CasesText(n) \o <<WORD>> : n \in {2, 3}}
    \cup {CasesAndQuestionsText(n) : n \in {0, 3}}
    \cup {<<LBRACE, KEY_OTHER, ONE, RBRACE>>, <<LBRACK, ONE, RBRACK>>, <<NULLTOK>>,
          <<WORD>>}

\* The outcome of llm.ainvoke: it raises, or it returns a reply
LlmRaise == [raised |-> TRUE, content |-> <<>>]
Reply(t) == [raised |-> FALSE, content |-> t]
LlmReplies == {LlmRaise} \cup {Reply(t) : t \in ModelTexts}
FewReplies == {LlmRaise, Reply(CasesText(0)), Reply(CasesText(MinTestCases))}
\* the few replies, text that is no JSON, and {"followUpQuestions": 1}
RoundReplies ==
    FewReplies \cup {Reply(<<WORD>>), Reply(<<LBRACE, KEY_FQ, ONE, RBRACE>>)}

AnswerSets == {<<>>, [k \in {"0", "2"} |-> IF k = "0" THEN "roles" ELSE ""]}

DefaultMaxTestCases == 10
\* The settings an admin saves: the Jira token configured, the maximum left at
\* its default or set below the largest reply, clarifications on or off.
AdminSettings ==
    [geminiApiKey : {""}, jiraToken : {"tok"},
     maxTestCases : {DefaultMaxTestCases, MaxCases - 1}, enableFollowUpQuestions : BOOLEAN]
FewAdminSettings == {s \in AdminSettings : s.maxTestCases = DefaultMaxTestCases}

(***************************************************************************)
(* State of api/main.py.                                                   *)
(*   user_sessions       the users that hold a session token               *)
(*   follow_up_contexts  the stored contexts, in insertion order           *)
(*   system_logs         the most recent entry of the log                  *)
(*   admin_settings      the settings                                      *)
(*   uuid_count          the number of context ids minted by uuid4         *)
(*   pending             the requests suspended in llm.ainvoke, in slots   *)
(*                       named after the users: a user's request waits in  *)
(*                       the user's own slot, except in SpecInsertions,    *)
(*                       where any user's generation waits in any slot     *)
(*   last                what the latest handler step gave its caller      *)
(*   refinements         history: the answer submissions that have ended,  *)
(*                       each with the context it refined, the number of   *)
(*                       contexts stored when it ended and its status;     *)
(*                       recorded in SpecRounds only                       *)
(* State of the checks of the pure functions:                              *)
(*   fn_pc, text_pre, text_body, text_post, parsed   _safe_parse_json      *)
(*   questions_in, answers_in, qa_block              the Q/A block         *)
(***************************************************************************)
VARIABLES user_sessions, follow_up_contexts, system_logs, admin_settings,
          uuid_count, pending, last, refinements,
          fn_pc, text_pre, text_body, text_post, parsed,
          questions_in, answers_in, qa_block

service_vars == <<user_sessions, follow_up_contexts, system_logs, admin_settings,
                  uuid_count, pending, last, refinements>>
fn_vars == <<fn_pc, text_pre, text_body, text_post, parsed,
             questions_in, answers_in, qa_block>>
vars == <<service_vars, fn_vars>>

NoCtx == [id |-> 0, original_text |-> "", questions |-> None, user |-> ""]
NoPrompt == [kind |-> "", context |-> "", qa_block |-> <<>>, max_cases |-> 0]
NoRequest ==
    [kind |-> "", user |-> "", source |-> "", enable |-> FALSE, prompt |-> NoPrompt,
     ctx |-> NoCtx]

\* what the caller of an ingestion sent: the name of the uploaded file, the
\* configured Jira token and the status of Jira's answer
NoJira == [token |-> "", status_code |-> 0]

\* status 0: the step gave no response (the handler is suspended in the model call)
NoLast ==
    [kind |-> "", user |-> "", status |-> 0, detail |-> "", cause |-> "",
     body |-> None, source |-> "", enable |-> FALSE, prompt |-> NoPrompt,
     llm_calls |-> 0, reply |-> LlmRaise, result |-> None, ctx |-> NoCtx,
     filename |-> <<>>, jira |-> NoJira]

\* log_activity: the entry appended; the model keeps the last entry of the list
log_activity(level, message) == <<[level |-> level, message |-> message]>>

ServiceInit ==
    /\ user_sessions = {}
    /\ follow_up_contexts = <<>>
    /\ system_logs = <<>>
    /\ admin_settings = [geminiApiKey |-> "", jiraToken |-> "",
                         maxTestCases |-> DefaultMaxTestCases,
                         enableFollowUpQuestions |-> TRUE]
    /\ uuid_count = 0
    /\ refinements = {}
    /\ pending = [u \in Users |-> NoRequest]
    /\ last = NoLast

FnIdle ==
    /\ fn_pc = "idle"
    /\ text_pre = <<>> /\ text_body = <<>> /\ text_post = <<>>
    /\ parsed = Return(None)
    /\ questions_in = None /\ answers_in = <<>> /\ qa_block = <<>>

Init == ServiceInit /\ FnIdle

\* mutant of Failed: the except clause answers with an empty result
Failed_fabricates_result(kind, user, detail, cause, req) ==
    [req EXCEPT !.kind = kind, !.user = user, !.status = 200, !.detail = detail,
                !.cause = cause, !.body = Dict(<<<<"testCases", List(<<>>)>>>>)]

\* the response of a handler that ended in its except clause: HTTP 500
Failed(kind, user, detail, cause, req) ==
    [req EXCEPT !.kind = kind, !.user = user, !.status = 500, !.detail = detail,
                !.cause = cause, !.body = None]

\* mutant of Returned: the handler hands on what the service returned
Returned_service_result(kind, user, body, req) ==
    [req EXCEPT !.kind = kind, !.user = user, !.status = 200, !.detail = "",
                !.cause = "", !.body = IF IsDict(req.result) THEN req.result ELSE body]

\* a handler's normal return: HTTP 200 with a body
Returned(kind, user, body, req) ==
    [req EXCEPT !.kind = kind, !.user = user, !.status = 200, !.detail = "",
                !.cause = "", !.body = body]

\* a handler that reached its await of the model call: no response yet
Suspended(kind, user) == [NoLast EXCEPT !.kind = kind, !.user = user]

\* login: authenticate() answers yes or no; the 401 raised in the try block
\* is caught by the handler's own except clause and becomes a 500
login(username, authenticated) ==
    /\ IF authenticated
       THEN /\ user_sessions' = user_sessions \cup {username}
            /\ system_logs' = log_activity("INFO", "logged in")
            /\ last' = Returned("login", username, Str("token"), NoLast)
       ELSE /\ user_sessions' = user_sessions
            /\ system_logs' = log_activity("ERROR", "Login error")
            /\ last' = Failed("login", username, "Login failed", "Invalid credentials", NoLast)
    /\ UNCHANGED <<follow_up_contexts, admin_settings, uuid_count, pending, refinements, fn_vars>>

\* get_current_user on a token that is in no session: 401 before the handler runs
reject_unauthenticated(kind) ==
    /\ last' = [NoLast EXCEPT !.kind = kind, !.status = 401, !.detail = "Invalid token"]
    /\ UNCHANGED <<user_sessions, follow_up_contexts, system_logs, admin_settings,
                   uuid_count, pending, refinements, fn_vars>>

EndsWithPdf(filename) == filename[Len(filename)] = ".pdf"

\* upload_file up to the await of the model call (lines 95-116); the request
\* of the user waits for the model in the slot
upload_start(slot, user, filename, extracted, extract_ok) ==
    /\ user \in user_sessions
    /\ pending[slot] = NoRequest
    /\ LET sent == [NoLast EXCEPT !.filename = filename] IN
       IF ~EndsWithPdf(filename)
       THEN /\ system_logs' = log_activity("ERROR", "File upload error")
            /\ last' = Failed("upload", user, "Failed to process file",
                              "Only PDF files are supported", sent)
            /\ pending' = pending
       ELSE IF ~extract_ok
       THEN /\ system_logs' = log_activity("ERROR", "File upload error")
            /\ last' = Failed("upload", user, "Failed to process file",
                              "text extraction failed", sent)
            /\ pending' = pending
       ELSE /\ system_logs' = log_activity("INFO", "PDF text extracted")
            /\ pending' = [pending EXCEPT ![slot] =
                  [kind |-> "upload", user |-> user, source |-> extracted,
                   enable |-> admin_settings.enableFollowUpQuestions,
                   prompt |-> build_generation_prompt(extracted, admin_settings.maxTestCases),
                   ctx |-> NoCtx]]
            /\ last' = [Suspended("upload", user) EXCEPT !.filename = filename]
    /\ UNCHANGED <<user_sessions, follow_up_contexts, admin_settings, uuid_count, refinements, fn_vars>>

\* mutant of fetch_story: the status of Jira's answer is not looked at
fetch_story_ignores_status(token, status_code, story_text) ==
    IF token = "" THEN [raised |-> TRUE, cause |-> "Jira token not configured", val |-> ""]
    ELSE [raised |-> FALSE, cause |-> "", val |-> story_text]

\* JiraService.fetch_story: [raised, cause, val]; the story text composed of
\* the fields of the fetched issue is an opaque source text
fetch_story(token, status_code, story_text) ==
    IF token = "" THEN [raised |-> TRUE, cause |-> "Jira token not configured", val |-> ""]
    ELSE IF status_code # 200 THEN [raised |-> TRUE, cause |-> "Jira API error", val |-> ""]
    ELSE [raised |-> FALSE, cause |-> "", val |-> story_text]

\* fetch_jira_story up to the await of the model call (lines 143-157)
jira_start(slot, user, status_code, story_text) ==
    /\ user \in user_sessions
    /\ pending[slot] = NoRequest
    /\ LET story == fetch_story(admin_settings.jiraToken, status_code, story_text)
           sent == [token |-> admin_settings.jiraToken, status_code |-> status_code]
       IN
       IF story.raised
       THEN /\ system_logs' = log_activity("ERROR", "Jira fetch error")
            /\ last' = Failed("jira", user, "Failed to fetch Jira story", story.cause,
                              [NoLast EXCEPT !.jira = sent])
            /\ pending' = pending
       ELSE /\ system_logs' = log_activity("INFO", "Jira story fetched")
            /\ pending' = [pending EXCEPT ![slot] =
                  [kind |-> "jira", user |-> user, source |-> story.val,
                   enable |-> admin_settings.enableFollowUpQuestions,
                   prompt |-> build_generation_prompt(story.val, admin_settings.maxTestCases),
                   ctx |-> NoCtx]]
            /\ last' = [Suspended("jira", user) EXCEPT !.jira = sent]
    /\ UNCHANGED <<user_sessions, follow_up_contexts, admin_settings, uuid_count, refinements, fn_vars>>

ErrorLog(kind) == IF kind = "upload" THEN "File upload error" ELSE "Jira fetch error"
ErrorDetail(kind) ==
    IF kind = "upload" THEN "Failed to process file" ELSE "Failed to fetch Jira story"

\* mutant of generation_finish: the handle is derived from the user name, so
\* a user's second context takes the place of the first
generation_finish_handle_per_user(slot, reply) ==
    /\ pending[slot].kind \in {"upload", "jira"}
    /\ LET req == pending[slot]
           r == generate_test_cases(reply.content, req.source,
                                    req.prompt.max_cases, req.enable)
           seen == [NoLast EXCEPT !.source = req.source, !.enable = req.enable,
                                  !.prompt = req.prompt, !.llm_calls = 1,
                                  !.reply = reply,
                                  !.result = IF reply.raised THEN None ELSE r.val]
           fail(cause) ==
               /\ system_logs' = log_activity("ERROR", ErrorLog(req.kind))
               /\ last' = Failed(req.kind, req.user, ErrorDetail(req.kind), cause, seen)
               /\ UNCHANGED <<follow_up_contexts, uuid_count>>
       IN IF reply.raised THEN fail("model call failed")
          ELSE IF r.raised THEN fail("generate_test_cases raised")
          ELSE IF ~IsDict(r.val) THEN fail("result has no get")
          ELSE IF Truthy(DictGet(r.val, "followUpQuestions", None))
          THEN /\ uuid_count < MaxUuid
               /\ LET context == [id |-> IF req.user = "alice" THEN 1 ELSE 2,
                                  original_text |-> req.source,
                                  questions |-> DictItem(r.val, "followUpQuestions"),
                                  user |-> req.user]
                      held == {i \in 1..Len(follow_up_contexts) :
                                  follow_up_contexts[i].id = context.id}
                  IN /\ uuid_count' = uuid_count + 1
                     /\ follow_up_contexts' =
                           IF held = {} THEN Append(follow_up_contexts, context)
                           ELSE [i \in 1..Len(follow_up_contexts) |->
                                   IF i \in held THEN context ELSE follow_up_contexts[i]]
                     /\ last' = Returned(req.kind, req.user,
                            Dict(<<<<"followUpQuestions", context.questions>>,
                                   <<"contextId", Str(ToString(context.id))>>>>),
                            [seen EXCEPT !.ctx = context])
                     /\ system_logs' = system_logs
          ELSE IF ~HasKey(r.val, "testCases") THEN fail("KeyError testCases")
          ELSE IF ~HasLen(DictItem(r.val, "testCases")) THEN fail("testCases has no len")
          ELSE /\ system_logs' = log_activity("INFO", "Generated test cases")
               /\ last' = Returned(req.kind, req.user,
                      Dict(<<<<"testCases", DictItem(r.val, "testCases")>>>>), seen)
               /\ UNCHANGED <<follow_up_contexts, uuid_count>>
    /\ pending' = [pending EXCEPT ![slot] = NoRequest]
    /\ UNCHANGED <<user_sessions, admin_settings, refinements, fn_vars>>

\* upload_file and fetch_jira_story from the model's reply on (lines 112-136
\* and 153-177): the suspended request of the user resumes with the reply
generation_finish(slot, reply) ==
    /\ pending[slot].kind \in {"upload", "jira"}
    /\ LET req == pending[slot]
           r == generate_test_cases(reply.content, req.source,
                                    req.prompt.max_cases, req.enable)
           seen == [NoLast EXCEPT !.source = req.source, !.enable = req.enable,
                                  !.prompt = req.prompt, !.llm_calls = 1,
                                  !.reply = reply,
                                  !.result = IF reply.raised THEN None ELSE r.val]
           fail(cause) ==
               /\ system_logs' = log_activity("ERROR", ErrorLog(req.kind))
               /\ last' = Failed(req.kind, req.user, ErrorDetail(req.kind), cause, seen)
               /\ UNCHANGED <<follow_up_contexts, uuid_count>>
       IN IF reply.raised THEN fail("model call failed")
          ELSE IF r.raised THEN fail("generate_test_cases raised")
          ELSE IF ~IsDict(r.val) THEN fail("result has no get")
          ELSE IF Truthy(DictGet(r.val, "followUpQuestions", None))
          THEN /\ uuid_count < MaxUuid
               /\ LET context == [id |-> uuid_count + 1,
                                  original_text |-> req.source,
                                  questions |-> DictItem(r.val, "followUpQuestions"),
                                  user |-> req.user]
                  IN /\ uuid_count' = uuid_count + 1
                     /\ follow_up_contexts' = Append(follow_up_contexts, context)
                     /\ last' = Returned(req.kind, req.user,
                            Dict(<<<<"followUpQuestions", context.questions>>,
                                   <<"contextId", Str(ToString(context.id))>>>>),
                            [seen EXCEPT !.ctx = context])
                     /\ system_logs' = system_logs
          ELSE IF ~HasKey(r.val, "testCases") THEN fail("KeyError testCases")
          ELSE IF ~HasLen(DictItem(r.val, "testCases")) THEN fail("testCases has no len")
          ELSE /\ system_logs' = log_activity("INFO", "Generated test cases")
               /\ last' = Returned(req.kind, req.user,
                      Dict(<<<<"testCases", DictItem(r.val, "testCases")>>>>), seen)
               /\ UNCHANGED <<follow_up_contexts, uuid_count>>
    /\ pending' = [pending EXCEPT ![slot] = NoRequest]
    /\ UNCHANGED <<user_sessions, admin_settings, refinements, fn_vars>>

\* mutant of FirstContextOf: the scan does not compare the owner
FirstContextOf_any_owner(contexts, user) ==
    IF Len(contexts) > 0 THEN contexts[1] ELSE NoCtx

\* mutant of FirstContextOf: the scan does not stop at the first match
FirstContextOf_last_match(contexts, user) ==
    IF \E i \in 1..Len(contexts) : contexts[i].user = user
    THEN contexts[CHOOSE i \in 1..Len(contexts) :
            /\ contexts[i].user = user
            /\ \A j \in (i + 1)..Len(contexts) : contexts[j].user # user]
    ELSE NoCtx

\* the scan of lines 186-190: the first stored context of the user, NoCtx if none
FirstContextOf(contexts, user) ==
    IF \E i \in 1..Len(contexts) : contexts[i].user = user
    THEN contexts[CHOOSE i \in 1..Len(contexts) :
            /\ contexts[i].user = user
            /\ \A j \in 1..(i - 1) : contexts[j].user # user]
    ELSE NoCtx

\* submit_answers up to the await of the model call (lines 184-196)
answers_start(user, answers) ==
    /\ user \in user_sessions
    /\ pending[user] = NoRequest
    /\ LET context == FirstContextOf(follow_up_contexts, user) IN
       IF context = NoCtx
       THEN /\ system_logs' = log_activity("ERROR", "Answer submission error")
            /\ last' = Failed("answers", user, "Failed to process answers",
                              "Context not found", NoLast)
            /\ pending' = pending
       ELSE IF ~Iterable(context.questions)
       THEN /\ system_logs' = log_activity("ERROR", "Answer submission error")
            /\ last' = Failed("answers", user, "Failed to process answers",
                              "questions are not iterable", [NoLast EXCEPT !.ctx = context])
            /\ pending' = pending
       ELSE /\ pending' = [pending EXCEPT ![user] =
                  [kind |-> "answers", user |-> user, source |-> context.original_text,
                   enable |-> FALSE,
                   prompt |-> build_refinement_prompt(context.original_text,
                                 qa_block_of(context.questions, answers),
                                 admin_settings.maxTestCases),
                   ctx |-> context]]
            /\ last' = Suspended("answers", user)
            /\ system_logs' = system_logs
    /\ UNCHANGED <<user_sessions, follow_up_contexts, admin_settings, uuid_count, refinements, fn_vars>>

\* mutant of answers_finish: a model call that raised is issued again
answers_finish_retries(user, reply) ==
    /\ pending[user].kind = "answers"
    /\ LET req == pending[user]
           r == generate_refined_test_cases(reply.content)
           seen == [NoLast EXCEPT !.source = req.source, !.prompt = req.prompt,
                                  !.llm_calls = 1, !.reply = reply, !.ctx = req.ctx,
                                  !.result = IF reply.raised THEN None ELSE r.val]
           fail(cause) ==
               /\ system_logs' = log_activity("ERROR", "Answer submission error")
               /\ last' = Failed("answers", req.user, "Failed to process answers", cause, seen)
               /\ pending' = [pending EXCEPT ![user] = NoRequest]
       IN IF reply.raised
          THEN /\ last' = Suspended("answers", user)
               /\ UNCHANGED <<system_logs, pending>>
          ELSE IF ~IsDict(r.val) THEN fail("result is not subscriptable by a key")
          ELSE IF ~HasKey(r.val, "testCases") THEN fail("KeyError testCases")
          ELSE /\ system_logs' = log_activity("INFO", "Generated refined test cases")
               /\ last' = Returned("answers", req.user,
                      Dict(<<<<"testCases", DictItem(r.val, "testCases")>>>>), seen)
               /\ pending' = [pending EXCEPT ![user] = NoRequest]
    /\ UNCHANGED <<user_sessions, follow_up_contexts, admin_settings, uuid_count, fn_vars>>

\* submit_answers from the model's reply on (lines 196-208)
answers_finish(user, reply) ==
    /\ pending[user].kind = "answers"
    /\ LET req == pending[user]
           r == generate_refined_test_cases(reply.content)
           seen == [NoLast EXCEPT !.source = req.source, !.prompt = req.prompt,
                                  !.llm_calls = 1, !.reply = reply, !.ctx = req.ctx,
                                  !.result = IF reply.raised THEN None ELSE r.val]
           fail(cause) ==
               /\ system_logs' = log_activity("ERROR", "Answer submission error")
               /\ last' = Failed("answers", req.user, "Failed to process answers", cause, seen)
       IN IF reply.raised THEN fail("model call failed")
          ELSE IF ~IsDict(r.val) THEN fail("result is not subscriptable by a key")
          ELSE IF ~HasKey(r.val, "testCases") THEN fail("KeyError testCases")
          ELSE /\ system_logs' = log_activity("INFO", "Generated refined test cases")
               /\ last' = Returned("answers", req.user,
                      Dict(<<<<"testCases", DictItem(r.val, "testCases")>>>>), seen)
    /\ pending' = [pending EXCEPT ![user] = NoRequest]
    /\ UNCHANGED <<user_sessions, follow_up_contexts, admin_settings, uuid_count, fn_vars>>

\* answers_finish, and the submission that ended added to the history
answers_finish_recorded(user, reply) ==
    /\ answers_finish(user, reply)
    /\ refinements' = refinements \cup
          {[id |-> pending[user].ctx.id, user |-> user,
            stored |-> Len(follow_up_contexts), status |-> last'.status]}

\* answers_finish, the history left alone
answers_finish_unrecorded(user, reply) ==
    /\ answers_finish(user, reply)
    /\ UNCHANGED refinements

\* update_settings
update_settings(user, settings) ==
    /\ user \in user_sessions
    /\ admin_settings' = settings
    /\ system_logs' = log_activity("INFO", "Admin settings updated")
    /\ last' = Returned("settings", user, Dict(<<<<"success", Num("1")>>>>), NoLast)
    /\ UNCHANGED <<user_sessions, follow_up_contexts, uuid_count, pending, refinements, fn_vars>>

\* clear_logs: the list is emptied, then the clearing itself is logged
clear_logs(user) ==
    /\ user \in user_sessions
    /\ system_logs' = log_activity("INFO", "System logs cleared")
    /\ last' = Returned("clear_logs", user, Dict(<<<<"success", Num("1")>>>>), NoLast)
    /\ UNCHANGED <<user_sessions, follow_up_contexts, admin_settings, uuid_count,
                   pending, refinements, fn_vars>>

(***************************************************************************)
(* Spec: every user, requests of different users interleaved at the model  *)
(* call, a few replies.  SpecOneUser: one user, every reply and setting.   *)
(***************************************************************************)
Next ==
    \/ \E u \in Users, ok \in BOOLEAN : login(u, ok)
    \/ \E k \in {"upload", "jira", "answers"} : reject_unauthenticated(k)
    \/ \E u \in Users, f \in FileNames, t \in PdfTexts, ok \in BOOLEAN :
          upload_start(u, u, f, t, ok)
    \/ \E u \in Users, code \in {200, 404}, t \in StoryTexts : jira_start(u, u, code, t)
    \/ \E u \in Users, reply \in FewReplies : generation_finish(u, reply)
    \/ \E u \in Users, a \in AnswerSets : answers_start(u, a)
    \/ \E u \in Users, reply \in FewReplies : answers_finish_unrecorded(u, reply)
    \/ \E u \in Users, s \in FewAdminSettings : update_settings(u, s)
    \/ \E u \in Users : clear_logs(u)

Spec == Init /\ [][Next]_vars

NextOneUser ==
    \/ \E ok \in BOOLEAN : login("alice", ok)
    \/ \E k \in {"upload", "jira", "answers"} : reject_unauthenticated(k)
    \/ \E f \in FileNames, t \in PdfTexts, ok \in BOOLEAN : upload_start("alice", "alice", f, t, ok)
    \/ \E code \in {200, 404}, t \in StoryTexts : jira_start("alice", "alice", code, t)
    \/ \E reply \in LlmReplies : generation_finish("alice", reply)
    \/ \E a \in AnswerSets : answers_start("alice", a)
    \/ \E reply \in LlmReplies : answers_finish_unrecorded("alice", reply)
    \/ \E s \in AdminSettings : update_settings("alice", s)
    \/ clear_logs("alice")

SpecOneUser == Init /\ [][NextOneUser]_vars

(***************************************************************************)
(* SpecInsertions: the generation requests of the users, two in flight at  *)
(* a time, of one user or of two.                                          *)
(***************************************************************************)
NextInsertions ==
    \/ \E u \in Users, ok \in BOOLEAN : login(u, ok)
    \/ \E slot \in Users, u \in Users, f \in FileNames, t \in PdfTexts, ok \in BOOLEAN :
          upload_start(slot, u, f, t, ok)
    \/ \E slot \in Users, u \in Users, code \in {200, 404}, t \in StoryTexts :
          jira_start(slot, u, code, t)
    \/ \E slot \in Users, reply \in FewReplies : generation_finish(slot, reply)
    \/ \E u \in Users, s \in FewAdminSettings : update_settings(u, s)

SpecInsertions == Init /\ [][NextInsertions]_vars

(***************************************************************************)
(* SpecRounds: the requests of one user, one after the other, with the     *)
(* history of her answer submissions; the replies of RoundReplies.         *)
(***************************************************************************)
NextRounds ==
    \/ \E ok \in BOOLEAN : login("alice", ok)
    \/ \E f \in FileNames, t \in PdfTexts, ok \in BOOLEAN :
          upload_start("alice", "alice", f, t, ok)
    \/ \E code \in {200, 404}, t \in StoryTexts : jira_start("alice", "alice", code, t)
    \/ \E reply \in RoundReplies : generation_finish("alice", reply)
    \/ \E a \in AnswerSets : answers_start("alice", a)
    \/ \E reply \in RoundReplies : answers_finish_recorded("alice", reply)
    \/ \E s \in FewAdminSettings : update_settings("alice", s)

SpecRounds == Init /\ [][NextRounds]_vars
(***************************************************************************)
(* SpecParser: _safe_parse_json on every text of at most MaxLen tokens.    *)
(* SpecProse: _safe_parse_json on a valid JSON text with one {...} region  *)
(* between two brace-free strings of at most MaxProse tokens.              *)
(* SpecAnswers: the Q/A block of every question list and answer set.       *)
(***************************************************************************)
RECURSIVE SeqsUpTo(_, _)
SeqsUpTo(S, n) ==
    IF n = 0 THEN {<<>>}
    ELSE LET shorter == SeqsUpTo(S, n - 1)
         IN shorter \cup {Append(t, x) : t \in {u \in shorter : Len(u) = n - 1}, x \in S}

Count(t, c) == Cardinality({i \in 1..Len(t) : t[i] = c})

\* valid JSON texts that hold exactly one '{' and one '}'
OneRegionJson ==
    {t \in SeqsUpTo(Tokens, MaxLen) :
        ~json_loads(t).raised /\ Count(t, LBRACE) = 1 /\ Count(t, RBRACE) = 1}

ProseTexts == SeqsUpTo(Tokens \ {LBRACE, RBRACE}, MaxProse)

FullText == text_pre \o text_body \o text_post

\* one call of _safe_parse_json on the text
safe_parse_step ==
    /\ fn_pc = "parse"
    /\ parsed' = safe_parse_json(FullText)
    /\ fn_pc' = "parsed"
    /\ UNCHANGED <<service_vars, text_pre, text_body, text_post,
                   questions_in, answers_in, qa_block>>

ParserInit ==
    /\ ServiceInit
    /\ fn_pc = "parse"
    /\ text_pre = <<>> /\ text_post = <<>>
    /\ text_body \in SeqsUpTo(Tokens, MaxLen)
    /\ parsed = Return(None)
    /\ questions_in = None /\ answers_in = <<>> /\ qa_block = <<>>

SpecParser == ParserInit /\ [][safe_parse_step]_vars

ProseInit ==
    /\ ServiceInit
    /\ fn_pc = "parse"
    /\ text_pre \in ProseTexts /\ text_post \in ProseTexts
    /\ text_body \in OneRegionJson
    /\ parsed = Return(None)
    /\ questions_in = None /\ answers_in = <<>> /\ qa_block = <<>>

SpecProse == ProseInit /\ [][safe_parse_step]_vars

MaxQuestions == 3
QuestionTexts == {Str("q_roles"), Str("q_integrations"), Str("q_regulatory")}
QuestionLists == {List(q) : q \in SeqsUpTo(QuestionTexts, MaxQuestions)}

\* every Dict[str, str] over the index strings "0" .. "3"
AllAnswerSets ==
    UNION {[keys -> {"", "a", "b"}] : keys \in SUBSET {IndexStr(i) : i \in 0..MaxQuestions}}

\* lines 37-41 of generate_refined_test_cases
qa_block_step ==
    /\ fn_pc = "qa"
    /\ qa_block' = qa_block_of(questions_in, answers_in)
    /\ fn_pc' = "qa_done"
    /\ UNCHANGED <<service_vars, text_pre, text_body, text_post, parsed,
                   questions_in, answers_in>>

AnswersInit ==
    /\ ServiceInit
    /\ fn_pc = "qa"
    /\ text_pre = <<>> /\ text_body = <<>> /\ text_post = <<>>
    /\ parsed = Return(None)
    /\ questions_in \in QuestionLists
    /\ answers_in \in AllAnswerSets
    /\ qa_block = <<>>

SpecAnswers == AnswersInit /\ [][qa_block_step]_vars

(***************************************************************************)
(* Properties.                                                             *)
(***************************************************************************)
IsGeneration(r) == r.kind \in {"upload", "jira"}

\* the model replied and the handler went on from the reply
Replied(r) == r.llm_calls = 1 /\ ~r.reply.raised

\* what the parser made of the reply of the request
ParsedOf(r) == safe_parse_json(r.reply.content).val

\* The number of test cases of a parsed reply: 0 for a reply the parser
\* gives up on, for a falsy value and for an object without testCases, the
\* length of the testCases list otherwise; -1 where there is no such number.
CaseCount(p) ==
    IF ~Truthy(p) THEN 0
    ELSE IF ~IsDict(p) THEN -1
    ELSE IF ~HasKey(p, "testCases") THEN 0
    ELSE IF IsList(DictItem(p, "testCases")) THEN PyLen(DictItem(p, "testCases"))
    ELSE -1

InStore(c) == \E i \in 1..Len(follow_up_contexts) : follow_up_contexts[i] = c

\* C1: once an answer submission has run a refinement for a stored context,
\* that context is no longer in follow_up_contexts (so the same user's next
\* submission cannot find it).
C1_ContextConsumed ==
    (last.kind = "answers" /\ last.status = 200) => ~InStore(last.ctx)

\* C2: an answer submission of a logged-in user who owns no stored context
\* is answered 404 'Context not found', and the model is not called.
C2_NotFoundIs404 ==
    (last.kind = "answers" /\ last.cause = "Context not found")
        => (last.status = 404 /\ last.llm_calls = 0)

C4_OnlyUnderThreshold ==
    (IsGeneration(last) /\ last.status = 200 /\ HasKey(last.body, "followUpQuestions"))
        => (last.enable /\ CaseCount(ParsedOf(last)) \in {0, 1, 2})

\* C5: a test-case list returned by upload, Jira or answer submission has at
\* most maxTestCases entries (the maximum the request was started with).
C5_AtMostMax ==
    (last.status = 200 /\ last.kind \in {"upload", "jira", "answers"}
        /\ HasKey(last.body, "testCases") /\ IsList(DictItem(last.body, "testCases")))
        => PyLen(DictItem(last.body, "testCases")) <= last.prompt.max_cases

\* C6: when the parser returns null the request does not fail: a generation
\* with clarifications disabled returns an empty test-case list, one with
\* clarifications enabled returns the follow-up questions and stores a
\* context, a refinement returns an empty test-case list.
C6_UnparsableIsNoError ==
    (Replied(last) /\ ParsedOf(last) = None)
        => /\ last.status = 200
           /\ (IsGeneration(last) /\ ~last.enable) => last.body = EmptyResult
           /\ (IsGeneration(last) /\ last.enable) =>
                 /\ HasKey(last.body, "followUpQuestions")
                 /\ ~HasKey(last.body, "testCases")
                 /\ InStore(last.ctx)
           /\ last.kind = "answers" => last.body = EmptyResult

C6_Witness ==
    /\ last.kind = "answers" /\ Replied(last)
    /\ last.reply.content = <<WORD>>
    /\ last.body = EmptyResult

\* the first '{' of t has no '}' after it
NoCloseAfterOpen(t) ==
    \A i \in 1..Len(t) : t[i] = LBRACE => \A j \in (i + 1)..Len(t) : t[j] # RBRACE

\* the text from the first '{' to the last '}' of a text that has both, in this order
BraceSpan(t) ==
    LET first == CHOOSE i \in 1..Len(t) : t[i] = LBRACE /\ \A j \in 1..(i - 1) : t[j] # LBRACE
        final == CHOOSE i \in 1..Len(t) : t[i] = RBRACE /\ \A j \in (i + 1)..Len(t) : t[j] # RBRACE
    IN SubSeq(t, first, final)

\* C7: _safe_parse_json never raises; it returns null when the whole text
\* does not parse and the text has no '{', or no '}' after the first '{', or
\* the text from the first '{' to the last '}' does not parse; what it
\* returns otherwise is the value of the whole text or of that span.
C7_ParserNeverThrows ==
    fn_pc = "parsed" =>
        /\ ~parsed.raised
        /\ (/\ json_loads(FullText).raised
            /\ \/ Count(FullText, LBRACE) = 0
               \/ NoCloseAfterOpen(FullText)
               \/ json_loads(BraceSpan(FullText)).raised)
              => parsed.val = None
        /\ parsed.val # None =>
              \/ (~json_loads(FullText).raised /\ parsed.val = json_loads(FullText).val)
              \/ (/\ Count(FullText, LBRACE) > 0 /\ ~NoCloseAfterOpen(FullText)
                  /\ parsed.val = json_loads(BraceSpan(FullText)).val)

C7_Witness ==
    /\ fn_pc = "parsed"
    /\ FullText = <<LBRACE, KEY_TC, RBRACE, WORD>>
    /\ parsed = Return(None)

IsProse(t) == \A i \in 1..Len(t) : t[i] = WORD

\* C8 as claimed: for every valid JSON text J with exactly one balanced
\* {...} region and all prose P and S, _safe_parse_json(P + J + S) returns
\* what _safe_parse_json(J) returns.
C8_ProseTolerance ==
    (fn_pc = "parsed" /\ IsProse(text_pre) /\ IsProse(text_post))
        => parsed = safe_parse_json(text_body)

\* C8 amended: for every valid JSON text J that is one JSON object (it opens
\* with '{') with exactly one balanced {...} region, and all brace-free
\* strings P and S such that P + J + S is not itself valid JSON,
\* _safe_parse_json(P + J + S) returns what _safe_parse_json(J) returns.
C8_ObjectProseTolerance ==
    (/\ fn_pc = "parsed"
     /\ Head(text_body) = LBRACE
     /\ json_loads(FullText).raised \/ (text_pre = <<>> /\ text_post = <<>>))
        => parsed = safe_parse_json(text_body)

C8_Witness ==
    /\ fn_pc = "parsed"
    /\ text_pre = <<WORD>> /\ text_post = <<RBRACK>>
    /\ text_body = <<LBRACE, KEY_TC, ONE, RBRACE>>
    /\ parsed = Return(Dict(<<<<"testCases", Num("1")>>>>))

\* C9: the Q/A block has one line per stored question, in the order of the
\* questions; the line of a question whose index is not in the answer set
\* has the empty answer, the line of a question whose index is in it has
\* that answer.
C9_AnswerDefaulting ==
    fn_pc = "qa_done" =>
        /\ Len(qa_block) = Len(Payload(questions_in))
        /\ \A i \in 1..Len(Payload(questions_in)) :
              /\ qa_block[i].q = Payload(questions_in)[i]
              /\ IndexStr(i - 1) \notin DOMAIN answers_in => qa_block[i].a = ""
              /\ IndexStr(i - 1) \in DOMAIN answers_in
                    => qa_block[i].a = answers_in[IndexStr(i - 1)]

C9_Witness ==
    /\ fn_pc = "qa_done"
    /\ questions_in = List(<<Str("q_roles"), Str("q_integrations"), Str("q_regulatory")>>)
    /\ DOMAIN answers_in = {"0"} /\ answers_in["0"] = "a"
    /\ Len(qa_block) = 3
    /\ qa_block[1].a = "a" /\ qa_block[2].a = "" /\ qa_block[3].a = ""

\* C10: every generation that falls under the threshold returns the same
\* three questions, whatever the source text, the reply and the requests
\* before it.
C10_StaticQuestions ==
    (IsGeneration(last) /\ Replied(last) /\ last.status = 200 /\ last.enable
        /\ CaseCount(ParsedOf(last)) \in {0, 1, 2})
        => /\ DictGet(last.body, "followUpQuestions", None)
                = List(<<Str("q_roles"), Str("q_integrations"), Str("q_regulatory")>>)
           /\ last.ctx.questions = DictGet(last.body, "followUpQuestions", None)

C10_Witness ==
    /\ IsGeneration(last) /\ Replied(last) /\ last.status = 200 /\ last.enable
    /\ last.source = "docB" /\ last.reply.content = CasesText(1)
    /\ Len(follow_up_contexts) = 2
    /\ follow_up_contexts[1].original_text = "docA"
    /\ follow_up_contexts[1].questions = follow_up_contexts[2].questions

\* C11: a step in which the model call of a generation or a refinement
\* raises ends the request in a failure (HTTP 500), returns no body (no test
\* cases, no follow-up questions) and leaves follow_up_contexts as it was.
C11_ModelFailure ==
    [][(last'.llm_calls = 1 /\ last'.reply.raised)
          => /\ last'.status = 500
             /\ last'.body = None
             /\ last'.result = None
             /\ follow_up_contexts' = follow_up_contexts]_vars

C11_Witness ==
    /\ last.kind = "answers" /\ last.llm_calls = 1 /\ last.reply.raised
    /\ last.status = 500 /\ last.cause = "model call failed"
    /\ Len(follow_up_contexts) = 1

\* the request of the step was an ingestion that has to fail: a file whose name
\* does not end in .pdf, a Jira fetch without a token or answered non-200
IngestionFailed(r) ==
    \/ r.kind = "upload" /\ r.filename # <<>> /\ ~EndsWithPdf(r.filename)
    \/ r.kind = "jira" /\ r.jira # NoJira
          /\ (r.jira.token = "" \/ r.jira.status_code # 200)

\* C12: a step that handles an upload whose file name does not end in .pdf,
\* or a Jira request while no token is configured or answered non-200 by
\* Jira, reports a failure (an HTTP error status, no body), does not reach the
\* model call (nothing is left suspended in it) and leaves follow_up_contexts
\* as it was.
C12_IngestionFailure ==
    [][IngestionFailed(last')
          => /\ last'.status >= 400
             /\ last'.body = None
             /\ last'.llm_calls = 0
             /\ pending' = pending
             /\ follow_up_contexts' = follow_up_contexts]_vars

C12_Witness ==
    /\ last.kind = "jira" /\ last.jira = [token |-> "tok", status_code |-> 404]
    /\ last.status = 500 /\ last.cause = "Jira API error"
    /\ Len(follow_up_contexts) = 1
    /\ pending["alice"] = NoRequest

\* C13: every context stored in follow_up_contexts has a questions value
\* that is a sequence with at least one element.
C13_QuestionsNonEmpty ==
    \A i \in 1..Len(follow_up_contexts) :
        /\ IsList(follow_up_contexts[i].questions)
        /\ PyLen(follow_up_contexts[i].questions) > 0

\* C14: a response of the upload, Jira or answer-submission endpoint has
\* either followUpQuestions together with a contextId and no testCases, or
\* testCases with neither followUpQuestions nor contextId; an answer
\* submission always answers with testCases.
C14_ExclusiveVariants ==
    (last.kind \in {"upload", "jira", "answers"} /\ last.status = 200)
        => /\ HasKey(last.body, "followUpQuestions") # HasKey(last.body, "testCases")
           /\ HasKey(last.body, "followUpQuestions") = HasKey(last.body, "contextId")
           /\ last.kind = "answers" => HasKey(last.body, "testCases")

\* the service's result carries both keys, the response only the questions
C14_Witness ==
    /\ IsGeneration(last) /\ last.status = 200
    /\ HasKey(last.result, "testCases") /\ HasKey(last.result, "followUpQuestions")
    /\ HasKey(last.body, "followUpQuestions") /\ HasKey(last.body, "contextId")
    /\ ~HasKey(last.body, "testCases")

\* C15: whatever text the model returned, a generation request or an answer
\* submission whose model call succeeded answers 200 with a test-case list
\* (possibly empty) or with the clarification bundle.
C15_ParsedIsFinal ==
    (last.kind \in {"upload", "jira", "answers"} /\ Replied(last))
        => /\ last.status = 200
           /\ \/ HasKey(last.body, "testCases") /\ IsList(DictItem(last.body, "testCases"))
              \/ HasKey(last.body, "followUpQuestions")

IsFirstOwned(c, u) ==
    \E i \in 1..Len(follow_up_contexts) :
        /\ follow_up_contexts[i] = c
        /\ c.user = u
        /\ \A j \in 1..(i - 1) : follow_up_contexts[j].user # u

\* C17: the context an answer submission refines (while it waits for the
\* model and when it has answered) is the first context of the store, in
\* insertion order, whose owner is the requesting user, whatever contexts of
\* other users precede it and whatever handle was returned for it; the
\* refinement prompt is built from that context's source text.
C17_FirstMatch ==
    /\ \A u \in Users : pending[u].kind = "answers"
          => /\ IsFirstOwned(pending[u].ctx, u)
             /\ pending[u].prompt.context = pending[u].ctx.original_text
    /\ (last.kind = "answers" /\ last.llm_calls = 1)
          => /\ IsFirstOwned(last.ctx, last.user)
             /\ last.prompt.context = last.ctx.original_text

\* bob's context precedes alice's in the store and is skipped
C17_Witness ==
    /\ Len(follow_up_contexts) = 2
    /\ follow_up_contexts[1].user = "bob" /\ follow_up_contexts[2].user = "alice"
    /\ last.kind = "answers" /\ last.user = "alice" /\ last.status = 200
    /\ last.ctx = follow_up_contexts[2]
    /\ last.ctx.id = 2

\* the questions of the lines of a Q/A block, in order
QuestionsOf(block) == [k \in 1..Len(block) |-> block[k].q]

\* the refinement request r was built from a context that is in the store
\* and is owned by the user of r: its source text and its questions
FromOwnContext(r) ==
    \E i \in 1..Len(follow_up_contexts) :
        /\ follow_up_contexts[i].user = r.user
        /\ r.ctx = follow_up_contexts[i]
        /\ r.prompt.kind = "refinement"
        /\ r.prompt.context = follow_up_contexts[i].original_text
        /\ QuestionsOf(r.prompt.qa_block) = Items(follow_up_contexts[i].questions)

\* C18: in every reachable state, under every interleaving of the requests
\* of the users, the source text and the questions of a refinement (one that
\* waits for the model, and the one that has just answered) are those of a
\* stored context whose owner is the user who submitted the answers.
C18_OwnerIsolation ==
    /\ \A u \in Users : pending[u].kind = "answers" => FromOwnContext(pending[u])
    /\ (last.kind = "answers" /\ last.llm_calls = 1) => FromOwnContext(last)

\* two users' refinements wait for the model at once, each with its own context
C18_Witness ==
    /\ pending["alice"].kind = "answers" /\ pending["bob"].kind = "answers"
    /\ pending["alice"].ctx.user = "alice" /\ pending["bob"].ctx.user = "bob"
    /\ pending["alice"].prompt.context = "docB" /\ pending["bob"].prompt.context = "docA"
    /\ follow_up_contexts[1].user = "bob"

\* the handle returned for the context c
HandleOf(c) == Str(ToString(c.id))

SecondRoundOpen(u, i, j) ==
    /\ i < j
    /\ follow_up_contexts[i].user = u /\ follow_up_contexts[j].user = u
    /\ follow_up_contexts[i].original_text # follow_up_contexts[j].original_text
    /\ \A k \in (j + 1)..Len(follow_up_contexts) : follow_up_contexts[k].user # u
    /\ \E f \in refinements :
          /\ f.user = u /\ f.id = follow_up_contexts[i].id
          /\ f.status = 200 /\ f.stored < j
    /\ \A f \in refinements : f.user = u => f.stored < j

\* C20: when a user has finished a clarification round and then begun a
\* second one with a different source text, her next answer submission (the
\* one that waits for the model, none having ended in between) refines the
\* context of the second round: its source text and its questions.
C20_RoundMatching ==
    \A u \in Users : \A i, j \in 1..Len(follow_up_contexts) :
        (pending[u].kind = "answers" /\ SecondRoundOpen(u, i, j))
            => /\ pending[u].ctx = follow_up_contexts[j]
               /\ pending[u].prompt.context = follow_up_contexts[j].original_text
====
